---- MODULE Spec2Model ----
(***************************************************************************)
(* Model of error-classifier-lib: the ErrorClassifier class of             *)
(* src/src/error-classifier.ts and the ErrorCode enum of src/src/types.ts. *)
(*                                                                         *)
(* JavaScript values are records [type, str]: type is the result of        *)
(* typeof ("string", "number", "undefined") and str the string form of the *)
(* value (what a property-key lookup uses).  An Error object is a record   *)
(* [type |-> "error", name, message].  ErrorCode is a string enum, so an   *)
(* ErrorCode value is the JavaScript string of its name.                   *)
(*                                                                         *)
(* classifications is the content of the static object                     *)
(* ErrorClassifier.ERROR_CLASSIFICATIONS: readonly is a compile-time mark, *)
(* the object itself is an ordinary one that code could write to.          *)
(***************************************************************************)
EXTENDS Integers, Sequences, FiniteSets, TLC

VARIABLES classifications, config, lastSet, replaced, op, arg, customMessage, result

vars == <<classifications, config, lastSet, replaced, op, arg, customMessage, result>>

(***************************************************************************)
(* Bounds                                                                  *)
(***************************************************************************)
\* largest number of entries in one override list of a RetryConfig
MaxOverrides == 1

(***************************************************************************)
(* JavaScript values                                                       *)
(***************************************************************************)
Str(s) == [type |-> "string", str |-> s]

Num(s) == [type |-> "number", str |-> s]

Undefined == [type |-> "undefined", str |-> "undefined"]

ErrorObj(n, m) == [type |-> "error", name |-> n, message |-> m]

\* truthiness of a value, as the || operator of line 164 tests it
Truthy(v) ==
  CASE v.type = "string" -> v.str # ""
    [] v.type = "number" -> v.str \notin {"0", "NaN"}
    [] OTHER -> FALSE

UpperToLower ==
  [A |-> "a", B |-> "b", C |-> "c", D |-> "d", E |-> "e", F |-> "f",
   G |-> "g", H |-> "h", I |-> "i", J |-> "j", K |-> "k", L |-> "l",
   M |-> "m", N |-> "n", O |-> "o", P |-> "p", Q |-> "q", R |-> "r",
   S |-> "s", T |-> "t", U |-> "u", V |-> "v", W |-> "w", X |-> "x",
   Y |-> "y", Z |-> "z"]

RECURSIVE toLowerCase(_)
\* String.prototype.toLowerCase on the characters the inputs use
toLowerCase(s) ==
  IF Len(s) = 0 THEN ""
  ELSE LET c == SubSeq(s, 1, 1)
       IN (IF c \in DOMAIN UpperToLower THEN UpperToLower[c] ELSE c)
            \o toLowerCase(SubSeq(s, 2, Len(s)))

\* String.prototype.includes: frag occurs in s, letter case respected
includes(s, frag) ==
  \E i \in 1..(Len(s) - Len(frag) + 1) : SubSeq(s, i, i + Len(frag) - 1) = frag

(***************************************************************************)
(* types.ts: ErrorCode and ErrorClassification                             *)
(***************************************************************************)
ErrorCode ==
  {"TIMEOUT", "CONNECTION_ERROR", "DNS_ERROR",
   "AUTHENTICATION_ERROR", "INVALID_API_KEY", "PERMISSION_DENIED",
   "RATE_LIMIT", "QUOTA_EXCEEDED",
   "MODEL_NOT_FOUND", "MODEL_OVERLOADED", "CONTEXT_LENGTH_EXCEEDED",
   "INVALID_RESPONSE", "PARSE_ERROR", "EMPTY_RESPONSE",
   "QUALITY_THRESHOLD_NOT_MET", "LATENCY_TOO_HIGH",
   "INTERNAL_ERROR", "SERVICE_UNAVAILABLE", "UNKNOWN_ERROR",
   "CUSTOM_ERROR"}

ErrorClassification ==
  {"timeout", "rate_limit", "authentication", "model", "quality", "network",
   "system", "unknown"}

Entry(c, r, f) == [classification |-> c, retryable |-> r, shouldFallback |-> f]

\* the static table of the class, keyed by the string of the ErrorCode
ERROR_CLASSIFICATIONS ==
  [TIMEOUT                   |-> Entry("timeout", TRUE, TRUE),
   CONNECTION_ERROR          |-> Entry("network", TRUE, TRUE),
   DNS_ERROR                 |-> Entry("network", TRUE, TRUE),
   AUTHENTICATION_ERROR      |-> Entry("authentication", FALSE, FALSE),
   INVALID_API_KEY           |-> Entry("authentication", FALSE, TRUE),
   PERMISSION_DENIED         |-> Entry("authentication", FALSE, FALSE),
   RATE_LIMIT                |-> Entry("rate_limit", TRUE, TRUE),
   QUOTA_EXCEEDED            |-> Entry("rate_limit", FALSE, TRUE),
   MODEL_NOT_FOUND           |-> Entry("model", FALSE, TRUE),
   MODEL_OVERLOADED          |-> Entry("model", TRUE, TRUE),
   CONTEXT_LENGTH_EXCEEDED   |-> Entry("model", FALSE, TRUE),
   INVALID_RESPONSE          |-> Entry("quality", TRUE, TRUE),
   PARSE_ERROR               |-> Entry("quality", TRUE, TRUE),
   EMPTY_RESPONSE            |-> Entry("quality", TRUE, TRUE),
   QUALITY_THRESHOLD_NOT_MET |-> Entry("quality", FALSE, TRUE),
   LATENCY_TOO_HIGH          |-> Entry("quality", FALSE, TRUE),
   INTERNAL_ERROR            |-> Entry("system", TRUE, FALSE),
   SERVICE_UNAVAILABLE       |-> Entry("system", TRUE, TRUE),
   UNKNOWN_ERROR             |-> Entry("unknown", FALSE, FALSE),
   CUSTOM_ERROR              |-> Entry("unknown", FALSE, FALSE)]

(***************************************************************************)
(* RetryConfig: only the two override lists matter to the classifier.  An  *)
(* optional list is <<>> when the field is absent and <<S>> when it is the *)
(* array with the elements S.                                              *)
(***************************************************************************)
RetryConfig(fallbackOnErrors, retryableErrors) ==
  [fallbackOnErrors |-> fallbackOnErrors, retryableErrors |-> retryableErrors]

\* list?.includes(v) ?? false : Array.prototype.includes compares with
\* SameValueZero, so a value that is not a string equals no list entry
optIncludes(list, v) ==
  IF list = <<>> THEN FALSE ELSE v.type = "string" /\ v.str \in list[1]

(***************************************************************************)
(* error-classifier.ts: the two inference functions                        *)
(***************************************************************************)
extractErrorCode(error) ==
  LET message == toLowerCase(error.message)
      name    == toLowerCase(error.name)
  IN IF includes(message, "timeout") \/ includes(name, "timeout")
       THEN "TIMEOUT"
     ELSE IF includes(message, "rate limit") \/ includes(message, "rate_limit")
             \/ includes(message, "too many requests")
       THEN "RATE_LIMIT"
     ELSE IF includes(message, "authentication") \/ includes(message, "unauthorized")
             \/ includes(message, "invalid api key") \/ includes(message, "api key")
       THEN "INVALID_API_KEY"
     ELSE IF includes(message, "quota") \/ includes(message, "exceeded")
             \/ includes(message, "insufficient credits")
       THEN "QUOTA_EXCEEDED"
     ELSE IF includes(message, "overloaded") \/ includes(message, "model overloaded")
       THEN "MODEL_OVERLOADED"
     ELSE IF includes(message, "context length") \/ includes(message, "max tokens")
             \/ includes(message, "token limit")
       THEN "CONTEXT_LENGTH_EXCEEDED"
     ELSE IF includes(message, "connection") \/ includes(message, "network")
             \/ includes(message, "ECONNREFUSED") \/ includes(message, "ENOTFOUND")
       THEN "CONNECTION_ERROR"
     ELSE IF includes(message, "503") \/ includes(message, "service unavailable")
             \/ includes(message, "unavailable")
       THEN "SERVICE_UNAVAILABLE"
     ELSE IF includes(message, "empty") \/ includes(message, "no response")
       THEN "EMPTY_RESPONSE"
     ELSE IF includes(message, "invalid response") \/ includes(message, "parse")
       THEN "INVALID_RESPONSE"
     ELSE IF includes(message, "permission") \/ includes(message, "forbidden")
             \/ includes(message, "403")
       THEN "PERMISSION_DENIED"
     ELSE IF includes(message, "model not found") \/ includes(message, "404")
       THEN "MODEL_NOT_FOUND"
     ELSE "UNKNOWN_ERROR"

\* determineErrorCodeFromMessage with the default of extractErrorCode
determineErrorCodeFromMessage_unknownDefault(message) ==
  LET lowerMessage == toLowerCase(message)
  IN IF includes(lowerMessage, "timeout") THEN "TIMEOUT"
     ELSE IF includes(lowerMessage, "rate limit") THEN "RATE_LIMIT"
     ELSE IF includes(lowerMessage, "authentication") \/ includes(lowerMessage, "api key")
       THEN "INVALID_API_KEY"
     ELSE IF includes(lowerMessage, "quota") THEN "QUOTA_EXCEEDED"
     ELSE IF includes(lowerMessage, "overloaded") THEN "MODEL_OVERLOADED"
     ELSE IF includes(lowerMessage, "context length") THEN "CONTEXT_LENGTH_EXCEEDED"
     ELSE IF includes(lowerMessage, "connection") THEN "CONNECTION_ERROR"
     ELSE IF includes(lowerMessage, "unavailable") THEN "SERVICE_UNAVAILABLE"
     ELSE IF includes(lowerMessage, "empty") THEN "EMPTY_RESPONSE"
     ELSE IF includes(lowerMessage, "invalid response") THEN "INVALID_RESPONSE"
     ELSE IF includes(lowerMessage, "permission") THEN "PERMISSION_DENIED"
     ELSE IF includes(lowerMessage, "model not found") THEN "MODEL_NOT_FOUND"
     ELSE "UNKNOWN_ERROR"

\* determineErrorCodeFromMessage that returns an unmatched message as the code
determineErrorCodeFromMessage_messageAsCode(message) ==
  LET lowerMessage == toLowerCase(message)
  IN IF includes(lowerMessage, "timeout") THEN "TIMEOUT"
     ELSE IF includes(lowerMessage, "rate limit") THEN "RATE_LIMIT"
     ELSE IF includes(lowerMessage, "authentication") \/ includes(lowerMessage, "api key")
       THEN "INVALID_API_KEY"
     ELSE IF includes(lowerMessage, "quota") THEN "QUOTA_EXCEEDED"
     ELSE IF includes(lowerMessage, "overloaded") THEN "MODEL_OVERLOADED"
     ELSE IF includes(lowerMessage, "context length") THEN "CONTEXT_LENGTH_EXCEEDED"
     ELSE IF includes(lowerMessage, "connection") THEN "CONNECTION_ERROR"
     ELSE IF includes(lowerMessage, "unavailable") THEN "SERVICE_UNAVAILABLE"
     ELSE IF includes(lowerMessage, "empty") THEN "EMPTY_RESPONSE"
     ELSE IF includes(lowerMessage, "invalid response") THEN "INVALID_RESPONSE"
     ELSE IF includes(lowerMessage, "permission") THEN "PERMISSION_DENIED"
     ELSE IF includes(lowerMessage, "model not found") THEN "MODEL_NOT_FOUND"
     ELSE message

determineErrorCodeFromMessage(message) ==
  LET lowerMessage == toLowerCase(message)
  IN IF includes(lowerMessage, "timeout") THEN "TIMEOUT"
     ELSE IF includes(lowerMessage, "rate limit") THEN "RATE_LIMIT"
     ELSE IF includes(lowerMessage, "authentication") \/ includes(lowerMessage, "api key")
       THEN "INVALID_API_KEY"
     ELSE IF includes(lowerMessage, "quota") THEN "QUOTA_EXCEEDED"
     ELSE IF includes(lowerMessage, "overloaded") THEN "MODEL_OVERLOADED"
     ELSE IF includes(lowerMessage, "context length") THEN "CONTEXT_LENGTH_EXCEEDED"
     ELSE IF includes(lowerMessage, "connection") THEN "CONNECTION_ERROR"
     ELSE IF includes(lowerMessage, "unavailable") THEN "SERVICE_UNAVAILABLE"
     ELSE IF includes(lowerMessage, "empty") THEN "EMPTY_RESPONSE"
     ELSE IF includes(lowerMessage, "invalid response") THEN "INVALID_RESPONSE"
     ELSE IF includes(lowerMessage, "permission") THEN "PERMISSION_DENIED"
     ELSE IF includes(lowerMessage, "model not found") THEN "MODEL_NOT_FOUND"
     ELSE "CUSTOM_ERROR"

(***************************************************************************)
(* error-classifier.ts: classify                                           *)
(***************************************************************************)
\* lines 156-165: the code and the message of the three input shapes.  An
\* ErrorCode is a string at run time, so it takes the typeof 'string' branch.
normalize(error, cm) ==
  IF error.type = "error"
    THEN [code |-> Str(extractErrorCode(error)), message |-> Str(error.message)]
  ELSE IF error.type = "string"
    THEN [code |-> Str(determineErrorCodeFromMessage(error.str)), message |-> error]
  ELSE [code |-> error, message |-> IF Truthy(cm) THEN cm ELSE error]

\* baseClassification whose default for a missing entry is retryable
baseClassification_retryableDefault(errorCode) ==
  IF errorCode.str \in DOMAIN classifications
    THEN classifications[errorCode.str]
    ELSE Entry("unknown", TRUE, FALSE)

\* lines 168-172: ERROR_CLASSIFICATIONS[errorCode] || { unknown, false, false }
baseClassification(errorCode) ==
  IF errorCode.str \in DOMAIN classifications
    THEN classifications[errorCode.str]
    ELSE Entry("unknown", FALSE, FALSE)

\* applyOverrides in which a list that is present replaces the table's flag
applyOverrides_listReplacesTable(n, classification, cfg) ==
  [code           |-> n.code,
   classification |-> classification.classification,
   retryable      |-> IF cfg.retryableErrors = <<>>
                        THEN classification.retryable
                        ELSE optIncludes(cfg.retryableErrors, n.code),
   shouldFallback |-> IF cfg.fallbackOnErrors = <<>>
                        THEN classification.shouldFallback
                        ELSE optIncludes(cfg.fallbackOnErrors, n.code),
   message        |-> n.message]

\* lines 174-188: the two overrides and the returned object
applyOverrides(n, classification, cfg) ==
  [code           |-> n.code,
   classification |-> classification.classification,
   retryable      |-> classification.retryable
                        \/ optIncludes(cfg.retryableErrors, n.code),
   shouldFallback |-> classification.shouldFallback
                        \/ optIncludes(cfg.fallbackOnErrors, n.code),
   message        |-> n.message]

classify(error, cm, cfg) ==
  LET n == normalize(error, cm)
  IN applyOverrides(n, baseClassification(n.code), cfg)

(***************************************************************************)
(* Inputs of the calls                                                     *)
(***************************************************************************)
\* phrases the messages are built from: fragments of the inference rules in
\* several letter cases, and a phrase that no rule knows
Phrases ==
  {"Timeout", "rate limit", "rate_limit", "API key", "exceeded",
   "ECONNREFUSED", "enotfound", "unavailable", "Empty", "novel phrase"}

\* messages of raw strings and of Error objects: the empty message, the
\* messages of the documented scenarios, the caller-defined code of
\* OverridePool, one phrase, or two phrases
Messages ==
  {"", "some completely novel phrase", "Request failed: rate limit exceeded",
   "MY_CUSTOM_CODE"}
    \cup Phrases
    \cup {a \o " " \o b : a \in Phrases, b \in Phrases}

CodeInputs == {Str(c) : c \in ErrorCode}

StringInputs == {Str(m) : m \in Messages}

\* a plain Error with every message, a TimeoutError with the short ones
ErrorInputs ==
  {ErrorObj("Error", m) : m \in Messages}
    \cup {ErrorObj("TimeoutError", m) : m \in Phrases \cup {""}}

\* values outside the declared parameter type, which reach the else branch
OtherInputs == {Num("42"), Undefined}

Inputs == CodeInputs \cup StringInputs \cup ErrorInputs \cup OtherInputs

CustomMessages == {Undefined, Str(""), Str("boom")}

\* entries of the override lists: two ErrorCodes and a caller-defined code
OverridePool == {"AUTHENTICATION_ERROR", "UNKNOWN_ERROR", "MY_CUSTOM_CODE"}

OverrideLists ==
  {<<>>} \cup {<<S>> : S \in {T \in SUBSET OverridePool : Cardinality(T) <= MaxOverrides}}

Configs == {RetryConfig(f, r) : f \in OverrideLists, r \in OverrideLists}

NoResult == [none |-> TRUE]

(***************************************************************************)
(* The classifier object and its caller.  The class is synchronous: a call *)
(* runs to completion and its caller takes the returned value before the   *)
(* next call is made (op = "idle").                                        *)
(***************************************************************************)
\* constructor(config): lines 144-146
Init ==
  /\ classifications = ERROR_CLASSIFICATIONS
  /\ config \in Configs
  /\ lastSet = config
  /\ replaced = FALSE
  /\ op = "idle"
  /\ arg = Undefined
  /\ customMessage = Undefined
  /\ result = NoResult

\* classify that stores the flags it computed in the entry of the code
Classify_storesFlags(error, cm) ==
  LET r == classify(error, cm, config)
  IN /\ op = "idle"
     /\ op' = "classify"
     /\ arg' = error
     /\ customMessage' = cm
     /\ result' = r
     /\ classifications' =
          IF r.code.str \in DOMAIN classifications
            THEN [classifications EXCEPT
                    ![r.code.str] = Entry(r.classification, r.retryable, r.shouldFallback)]
            ELSE classifications
     /\ UNCHANGED <<config, lastSet, replaced>>

\* classify(error, customMessage): lines 151-189
Classify(error, cm) ==
  /\ op = "idle"
  /\ op' = "classify"
  /\ arg' = error
  /\ customMessage' = cm
  /\ result' = classify(error, cm, config)
  /\ UNCHANGED <<classifications, config, lastSet, replaced>>

\* isRetryable(error): lines 194-197
IsRetryable(error) ==
  /\ op = "idle"
  /\ op' = "isRetryable"
  /\ arg' = error
  /\ customMessage' = Undefined
  /\ result' = [value |-> classify(error, Undefined, config).retryable]
  /\ UNCHANGED <<classifications, config, lastSet, replaced>>

\* shouldFallback(error): lines 202-205
ShouldFallback(error) ==
  /\ op = "idle"
  /\ op' = "shouldFallback"
  /\ arg' = error
  /\ customMessage' = Undefined
  /\ result' = [value |-> classify(error, Undefined, config).shouldFallback]
  /\ UNCHANGED <<classifications, config, lastSet, replaced>>

\* setConfig that replaces one override list and keeps the other
SetConfig_keepsFallbackList(c) ==
  /\ op = "idle"
  /\ config' = [config EXCEPT !.retryableErrors = c.retryableErrors]
  /\ lastSet' = c
  /\ replaced' = TRUE
  /\ UNCHANGED <<classifications, op, arg, customMessage, result>>

\* setConfig(config): lines 312-314; lastSet records the argument and replaced
\* that the constructor's configuration is no longer the active one
SetConfig(c) ==
  /\ op = "idle"
  /\ config' = c
  /\ lastSet' = c
  /\ replaced' = TRUE
  /\ UNCHANGED <<classifications, op, arg, customMessage, result>>

\* the caller takes the value a call returned
Return ==
  /\ op # "idle"
  /\ op' = "idle"
  /\ arg' = Undefined
  /\ customMessage' = Undefined
  /\ result' = NoResult
  /\ UNCHANGED <<classifications, config, lastSet, replaced>>

Next ==
  \/ \E error \in Inputs, cm \in CustomMessages : Classify(error, cm)
  \/ \E error \in Inputs : IsRetryable(error)
  \/ \E error \in Inputs : ShouldFallback(error)
  \/ \E c \in Configs : SetConfig(c)
  \/ Return

Spec == Init /\ [][Next]_vars

(***************************************************************************)
(* The inference rules as the specification lists them: twelve rules in a  *)
(* fixed order, each a set of fragments looked for without regard to       *)
(* letter case.  The string path looks for fewer fragments per rule.       *)
(***************************************************************************)
RuleCode ==
  <<"TIMEOUT", "RATE_LIMIT", "INVALID_API_KEY", "QUOTA_EXCEEDED",
    "MODEL_OVERLOADED", "CONTEXT_LENGTH_EXCEEDED", "CONNECTION_ERROR",
    "SERVICE_UNAVAILABLE", "EMPTY_RESPONSE", "INVALID_RESPONSE",
    "PERMISSION_DENIED", "MODEL_NOT_FOUND">>

StructuredFragments ==
  <<{"timeout"},
    {"rate limit", "rate_limit", "too many requests"},
    {"authentication", "unauthorized", "invalid api key", "api key"},
    {"quota", "exceeded", "insufficient credits"},
    {"overloaded", "model overloaded"},
    {"context length", "max tokens", "token limit"},
    {"connection", "network", "econnrefused", "enotfound"},
    {"503", "service unavailable", "unavailable"},
    {"empty", "no response"},
    {"invalid response", "parse"},
    {"permission", "forbidden", "403"},
    {"model not found", "404"}>>

StringFragments ==
  <<{"timeout"}, {"rate limit"}, {"authentication", "api key"}, {"quota"},
    {"overloaded"}, {"context length"}, {"connection"}, {"unavailable"},
    {"empty"}, {"invalid response"}, {"permission"}, {"model not found"}>>

\* text contains one of the fragments, in any letter case
containsFragment(text, frags) ==
  LET lower == toLowerCase(text) IN \E f \in frags : includes(lower, f)

\* rule i applies to the input x (an Error object or a raw string); the
\* timeout rule of the structured path also looks at the name
RuleMatches(x, i) ==
  IF x.type = "error"
    THEN \/ containsFragment(x.message, StructuredFragments[i])
         \/ (i = 1 /\ containsFragment(x.name, StructuredFragments[1]))
    ELSE containsFragment(x.str, StringFragments[i])

MatchingRules(x) == {i \in DOMAIN RuleCode : RuleMatches(x, i)}

FirstRule(x) == CHOOSE i \in MatchingRules(x) : \A j \in MatchingRules(x) : i <= j

\* the configuration has no override entries
NoOverrides(cfg) ==
  /\ cfg.retryableErrors \in {<<>>, <<{}>>}
  /\ cfg.fallbackOnErrors \in {<<>>, <<{}>>}

Flags(r) ==
  [classification |-> r.classification, retryable |-> r.retryable,
   shouldFallback |-> r.shouldFallback]

(***************************************************************************)
(* Claims                                                                  *)
(***************************************************************************)
\* C1: classify(c) of an ErrorCode c, under a configuration without
\* override entries, returns code c and the table entry of c.
C1_CodeGetsItsTableEntry ==
  (op = "classify" /\ arg \in CodeInputs /\ NoOverrides(config)) =>
    /\ result.code = arg
    /\ Flags(result) = ERROR_CLASSIFICATIONS[arg.str]

\* C2: an ErrorCode c listed in retryableErrors is retryable, one listed in
\* fallbackOnErrors falls back, and a flag whose list does not name c keeps
\* its table value.
C2_OverrideAppliesToPassedCode ==
  (op = "classify" /\ arg \in CodeInputs) =>
    /\ result.retryable =
         (ERROR_CLASSIFICATIONS[arg.str].retryable
            \/ optIncludes(config.retryableErrors, arg))
    /\ result.shouldFallback =
         (ERROR_CLASSIFICATIONS[arg.str].shouldFallback
            \/ optIncludes(config.fallbackOnErrors, arg))

\* C3: against the same call under a configuration without override lists,
\* the active configuration leaves code, classification and message as they
\* are and can only turn retryable and shouldFallback from false to true.
C3_ConfigOnlyWidens ==
  op = "classify" =>
    LET base == classify(arg, customMessage, RetryConfig(<<>>, <<>>))
    IN /\ result.code = base.code
       /\ result.classification = base.classification
       /\ result.message = base.message
       /\ (base.retryable => result.retryable)
       /\ (base.shouldFallback => result.shouldFallback)

\* a list entry turned a flag of the table from false to true
C3_Witness ==
  /\ op = "classify"
  /\ ~NoOverrides(config)
  /\ result.retryable
  /\ ~classify(arg, customMessage, RetryConfig(<<>>, <<>>)).retryable

\* C4: classifying the code of a result again, under the same
\* configuration, gives the same classification, retryable and
\* shouldFallback.
C4_ReclassifyIdempotent ==
  op = "classify" =>
    Flags(classify(result.code, Undefined, config)) = Flags(result)

C6_MessageOfCodeInput ==
  (op = "classify" /\ arg \in CodeInputs) =>
    result.message = (IF Truthy(customMessage) THEN customMessage ELSE arg)

\* C7: an Error whose message contains ECONNREFUSED or ENOTFOUND in any
\* letter case, and no fragment of the six rules before the connection
\* rule, gets code CONNECTION_ERROR and classification network.
C7_ConnectionFragmentsAnyCase ==
  (/\ op = "classify"
   /\ arg.type = "error"
   /\ containsFragment(arg.message, {"econnrefused", "enotfound"})
   /\ \A i \in 1..6 : ~RuleMatches(arg, i)) =>
    /\ result.code = Str("CONNECTION_ERROR")
    /\ result.classification = "network"

\* C8: on both paths a message with fragments of two or more rules gets the
\* code of the earliest of them in the fixed order of RuleCode.
C8_FirstMatchWins ==
  (/\ op = "classify"
   /\ arg.type \in {"error", "string"}
   /\ Cardinality(MatchingRules(arg)) >= 2) =>
    result.code = Str(RuleCode[FirstRule(arg)])

\* C9: a raw string that no rule matches gets CUSTOM_ERROR, an Error that
\* no rule matches gets UNKNOWN_ERROR, and unless the configuration lists
\* that code the result is unknown / not retryable / no fallback.
C9_DefaultsOfTheTwoPaths ==
  (/\ op = "classify"
   /\ arg.type \in {"error", "string"}
   /\ MatchingRules(arg) = {}) =>
    /\ result.code =
         Str(IF arg.type = "string" THEN "CUSTOM_ERROR" ELSE "UNKNOWN_ERROR")
    /\ (/\ ~optIncludes(config.retryableErrors, result.code)
        /\ ~optIncludes(config.fallbackOnErrors, result.code))
         => Flags(result) = Entry("unknown", FALSE, FALSE)

\* a raw string that no rule matches was classified under a configuration
\* whose lists name other codes
C9_Witness ==
  /\ op = "classify"
  /\ arg = Str("some completely novel phrase")
  /\ config.retryableErrors = <<{"UNKNOWN_ERROR"}>>
  /\ config.fallbackOnErrors # <<>>
  /\ result.code = Str("CUSTOM_ERROR")

Taxonomy(c) ==
  CASE c = "TIMEOUT" -> Entry("timeout", TRUE, TRUE)
    [] c \in {"CONNECTION_ERROR", "DNS_ERROR"} -> Entry("network", TRUE, TRUE)
    [] c \in {"AUTHENTICATION_ERROR", "PERMISSION_DENIED"} ->
         Entry("authentication", FALSE, FALSE)
    [] c = "INVALID_API_KEY" -> Entry("authentication", FALSE, TRUE)
    [] c = "RATE_LIMIT" -> Entry("rate_limit", TRUE, TRUE)
    [] c = "QUOTA_EXCEEDED" -> Entry("rate_limit", FALSE, TRUE)
    [] c \in {"MODEL_NOT_FOUND", "CONTEXT_LENGTH_EXCEEDED"} ->
         Entry("model", FALSE, TRUE)
    [] c = "MODEL_OVERLOADED" -> Entry("model", TRUE, TRUE)
    [] c \in {"INVALID_RESPONSE", "PARSE_ERROR", "EMPTY_RESPONSE"} ->
         Entry("quality", TRUE, TRUE)
    [] c \in {"QUALITY_THRESHOLD_NOT_MET", "LATENCY_TOO_HIGH"} ->
         Entry("quality", FALSE, TRUE)
    [] c = "INTERNAL_ERROR" -> Entry("system", TRUE, FALSE)
    [] c = "SERVICE_UNAVAILABLE" -> Entry("system", TRUE, TRUE)
    [] c \in {"UNKNOWN_ERROR", "CUSTOM_ERROR"} -> Entry("unknown", FALSE, FALSE)

\* C11: in every state the table has exactly one entry for each of the 20
\* ErrorCodes and each entry is the row of the specification's table, so no
\* authentication code is retryable, every quality code falls back, and no
\* call has changed an entry.
C11_TableTotalAndConstant ==
  /\ Cardinality(ErrorCode) = 20
  /\ DOMAIN classifications = ErrorCode
  /\ \A c \in ErrorCode :
       /\ classifications[c] = Taxonomy(c)
       /\ classifications[c].classification = "authentication"
            => ~classifications[c].retryable
       /\ classifications[c].classification = "quality"
            => classifications[c].shouldFallback

\* after a setConfig, a classify whose result is retryable by the list
\* alone, while the entry of its code still says not retryable
C11_Witness ==
  /\ op = "classify"
  /\ replaced
  /\ result.code.str \in DOMAIN classifications
  /\ result.retryable
  /\ ~classifications[result.code.str].retryable

\* the codes the two inference functions can return
InferableCodes ==
  {RuleCode[i] : i \in DOMAIN RuleCode} \cup {"UNKNOWN_ERROR", "CUSTOM_ERROR"}

\* a list without its entries that are not names of ErrorCodes
onlyErrorCodes(list) ==
  IF list = <<>> THEN <<>> ELSE <<list[1] \cap ErrorCode>>

\* the configuration without the list entries that are not names of ErrorCodes
withoutCustomCodes(cfg) ==
  RetryConfig(onlyErrorCodes(cfg.fallbackOnErrors), onlyErrorCodes(cfg.retryableErrors))

====
